---- MODULE Spec2Model ----
(***************************************************************************)
(* Model of the production ETL pipeline orchestrator                       *)
(* (backend/etl/production_pipeline.py) and of the components it drives:   *)
(* RetryHandler, DeadLetterQueue and DataQualityValidator                  *)
(* (error_handler.py), MetricsCollector and AlertingSystem (monitoring.py),*)
(* SchemaRegistry, SchemaDetector, DatabaseMigrator and                    *)
(* SchemaEvolutionManager (schema_evolution.py), extract_data, transform   *)
(* and load_data.                                                          *)
(*                                                                         *)
(* One ProductionETLPipeline object is shared by the run slots; each slot  *)
(* executes run_pipeline statement group by statement group.  Spec runs    *)
(* the slots one run after the other on a single slot; ConcSpec lets two   *)
(* slots run at the same time on the shared registry, counter and          *)
(* directories.  HealthSpec and CollectorSpec call the AlertingSystem and  *)
(* the MetricsCollector alone, BatchSpec runs run_batch_pipeline on a      *)
(* directory, and ValidateSpec applies validate_file to the states a path  *)
(* can be in.                                                              *)
(***************************************************************************)
EXTENDS Integers, Sequences, FiniteSets, TLC

\* ------------------------------------------------------------------ bounds

\* Number of run_pipeline calls started in a behaviour of Spec.
MaxRuns == 2
\* Number of run_pipeline calls started in a behaviour of ConcSpec.
MaxConcRuns == 2
\* Number of transient I/O errors the file system raises in one run.
MaxIoErrors == 1
\* Number of check_pipeline_health calls in a behaviour of HealthSpec.
MaxHealthCalls == 4
\* The last second of the wall clock.
MaxClock == 1
\* Number of runs tracked in a behaviour of CollectorSpec, and number of
\* calls made there for runs that were finished before.
MaxTracked == 2
MaxLateCalls == 2
\* run_batch_pipeline calls of BatchSpec.
MaxBatches == 2

\* ------------------------------------------------------- program constants

\* RetryHandler(max_retries=3, retry_delay=1.0), production_pipeline.py:47
max_retries == 3
retry_delay == 1
\* alert_thresholds['max_failed_runs'], monitoring.py:168
max_failed_runs == 3
\* number of rows of a non-empty input of the model
SomeRows == 2

Slots == {1, 2}
None == "None"

\* ------------------------------------------------------------ the inputs

\* The four columns of the default registry entry and of the users table.
RequiredColumns == {"user_id", "age", "sign_up_date", "is_active"}

\* Column -> dtype-derived type of the frames read from the input files
\* (SchemaDetector.type_mapping: object -> string, int64 -> integer,
\* bool -> boolean; a date read from CSV is an object column).  "nested"
\* stands for an object column whose cells are lists (read from JSON).
BaseFrame ==
    [c \in RequiredColumns |->
        CASE c = "user_id" -> "string"
          [] c = "age" -> "integer"
          [] c = "sign_up_date" -> "string"
          [] OTHER -> "boolean"]

Restrict(f, S) == [c \in S |-> f[c]]

WithColumn(f, col, type) ==
    [c \in DOMAIN f \cup {col} |-> IF c = col THEN type ELSE f[c]]

\* The input files of the model.  kind: what reading the file does;
\* cols/rows/nulls: the frame extract_data returns when it can be read
\* (nulls: the columns that hold a null; high_missing: those of them with
\* more than half of the cells null).
Files ==
    {"missing.csv", "malformed.csv", "data.xml", "empty.csv", "base.csv",
     "email.csv", "noactive_email.csv", "noactive.csv", "note.csv",
     "nested.json", "nullage.csv"}

Content(f) ==
    CASE f = "malformed.csv" ->
            [kind |-> "malformed", cols |-> BaseFrame, rows |-> 0, nulls |-> {}, high_missing |-> {}]
      [] f = "data.xml" ->
            [kind |-> "unsupported", cols |-> BaseFrame, rows |-> 0, nulls |-> {}, high_missing |-> {}]
      [] f = "empty.csv" ->
            [kind |-> "csv", cols |-> BaseFrame, rows |-> 0, nulls |-> {}, high_missing |-> {}]
      [] f = "email.csv" ->
            [kind |-> "csv", cols |-> WithColumn(BaseFrame, "email", "string"),
             rows |-> SomeRows, nulls |-> {}, high_missing |-> {}]
      [] f = "noactive_email.csv" ->
            [kind |-> "csv",
             cols |-> WithColumn(Restrict(BaseFrame, RequiredColumns \ {"is_active"}),
                                 "email", "string"),
             rows |-> SomeRows, nulls |-> {}, high_missing |-> {}]
      [] f = "noactive.csv" ->
            [kind |-> "csv",
             cols |-> Restrict(BaseFrame, RequiredColumns \ {"is_active"}),
             rows |-> SomeRows, nulls |-> {}, high_missing |-> {}]
      [] f = "note.csv" ->
            [kind |-> "csv", cols |-> WithColumn(BaseFrame, "note", "string"),
             rows |-> SomeRows, nulls |-> {"note"}, high_missing |-> {}]
      [] f = "nullage.csv" ->
            [kind |-> "csv", cols |-> WithColumn(BaseFrame, "age", "float"),
             rows |-> SomeRows, nulls |-> {"age"}, high_missing |-> {"age"}]
      [] f = "nested.json" ->
            [kind |-> "json", cols |-> WithColumn(BaseFrame, "tags", "nested"),
             rows |-> SomeRows, nulls |-> {}, high_missing |-> {}]
      [] OTHER ->
            [kind |-> "csv", cols |-> BaseFrame, rows |-> SomeRows, nulls |-> {}, high_missing |-> {}]

\* Files present in the input directory when the program starts.
InitialInputDir == Files \ {"missing.csv"}

\* Inputs and options the runs of ConcSpec are started with.
ConcFiles == {"email.csv", "empty.csv"}

NoColumns == [c \in {} |-> None]

NoContent ==
    [kind |-> None, cols |-> NoColumns, rows |-> 0, nulls |-> {},
     high_missing |-> {}]

NoFrame == [cols |-> NoColumns, rows |-> 0, nulls |-> {}, high_missing |-> {}]

\* ------------------------------------------------- DataQualityValidator

\* The kinds of content whose file name ends in .csv.  "blank": a file
\* without a byte (read_csv raises EmptyDataError); "undecodable": read_csv
\* raises another exception, e.g. UnicodeDecodeError.
CsvKinds == {"csv", "malformed", "blank", "undecodable"}

NoValidation == [is_valid |-> TRUE, issues |-> {}, warnings |-> {}]

\* A validate_file that turns every exception of the CSV read into an
\* invalid file without saying why.
validate_file_silent(exists, content, stat) ==
    IF stat = "error"
    THEN [is_valid |-> FALSE, issues |-> {"Validation error"}, warnings |-> {}]
    ELSE IF ~exists
    THEN [is_valid |-> FALSE, issues |-> {"File does not exist"}, warnings |-> {}]
    ELSE [is_valid |-> stat # "too_large" /\ content.kind \notin
                          {"malformed", "blank", "undecodable"},
          issues |->
             (IF stat = "too_large" THEN {"File too large"} ELSE {})
             \cup (IF content.kind = "malformed"
                   THEN {"CSV parsing error - malformed CSV"} ELSE {})
             \cup (IF content.kind = "blank" THEN {"Empty CSV file"} ELSE {}),
          warnings |-> {}]

\* validate_file: the artifact-level gate.  stat: what exists() and stat()
\* do ("ok": they return and the size is within max_file_size_mb;
\* "too_large": the size is above it; "error": one of them raises, which
\* the outer except catches).  A missing file, a file that is too large, a
\* CSV that does not parse and a CSV without content are issues and clear
\* is_valid; any other exception of the CSV read is a warning; a file
\* whose suffix is not .csv is not read at all.
validate_file(exists, content, stat) ==
    IF stat = "error"
    THEN [is_valid |-> FALSE, issues |-> {"Validation error"}, warnings |-> {}]
    ELSE IF ~exists
    THEN [is_valid |-> FALSE, issues |-> {"File does not exist"}, warnings |-> {}]
    ELSE [is_valid |-> stat # "too_large" /\ content.kind \notin {"malformed", "blank"},
          issues |->
             (IF stat = "too_large" THEN {"File too large"} ELSE {})
             \cup (IF content.kind = "malformed"
                   THEN {"CSV parsing error - malformed CSV"} ELSE {})
             \cup (IF content.kind = "blank" THEN {"Empty CSV file"} ELSE {}),
          warnings |->
             (IF content.kind = "csv"
                    /\ {"user_id", "age"} \ DOMAIN content.cols # {}
              THEN {"Missing recommended columns"} ELSE {})
             \cup (IF content.kind = "undecodable"
                   THEN {"CSV validation warning"} ELSE {})]

NoQualityReport == [issues |-> {}, warnings |-> {}, total_rows |-> 0]

\* validate_data_quality: the dataset-level gate.  The only issue it records
\* is the empty dataset; everything else it finds is a warning, among them
\* the columns with more than 50% missing values.
validate_data_quality(frame) ==
    [issues |-> IF frame.rows = 0 THEN {"Empty dataset"} ELSE {},
     warnings |-> IF frame.rows # 0 /\ frame.high_missing # {}
                  THEN {"High missing data"} ELSE {},
     total_rows |-> frame.rows]

\* extract_data: raises for a missing file, an unsupported suffix, a file
\* that does not parse, or an I/O error while reading; returns the frame
\* otherwise.
extract_data(exists, content, io_error) ==
    IF ~exists THEN [raised |-> "FileNotFoundError", frame |-> NoFrame]
    ELSE IF content.kind = "unsupported"
    THEN [raised |-> "ValueError", frame |-> NoFrame]
    ELSE IF content.kind = "malformed"
    THEN [raised |-> "ParserError", frame |-> NoFrame]
    ELSE IF io_error THEN [raised |-> "OSError", frame |-> NoFrame]
    ELSE [raised |-> None,
          frame |-> [cols |-> content.cols, rows |-> content.rows,
                     nulls |-> content.nulls,
                     high_missing |-> content.high_missing]]

\* _extract_with_validation: extract, then raise on a dataset-level issue.
\* origin names where the exception comes from.
extract_with_validation(exists, content, io_error) ==
    LET x == extract_data(exists, content, io_error)
        q == validate_data_quality(x.frame)
    IN  IF x.raised # None
        THEN [raised |-> x.raised, origin |-> "extract", frame |-> NoFrame,
              quality_checked |-> FALSE, quality |-> NoQualityReport]
        ELSE IF q.issues # {}
        THEN [raised |-> "Exception", origin |-> "quality", frame |-> NoFrame,
              quality_checked |-> TRUE, quality |-> q]
        ELSE [raised |-> None, origin |-> None, frame |-> x.frame,
              quality_checked |-> TRUE, quality |-> q]

\* ----------------------------------------------------------- RetryHandler

RECURSIVE Pow2(_)
Pow2(n) == IF n = 0 THEN 1 ELSE 2 * Pow2(n - 1)

\* A backoff that grows by retry_delay per attempt.
wait_time_linear(attempt) == retry_delay * (attempt + 1)

\* wait_time = retry_delay * (2 ** attempt)
wait_time(attempt) == retry_delay * Pow2(attempt)

\* A loop that gives up one attempt early, `range(self.max_retries)`.
is_last_attempt_one_early(attempt) == attempt = max_retries - 1

\* `if attempt == self.max_retries: raise e` of the loop
\* `for attempt in range(self.max_retries + 1)`.
is_last_attempt(attempt) == attempt = max_retries

\* A retry policy that raises an error of its own once it gives up.
reraise_wrapped(e) == "RetryError"

\* `raise e` of the last attempt: the exception the attempt raised.
reraise(e) == e

\* ------------------------------------------------- transform and load_data

\* transform: renames signup_date, raises ValueError when a required column
\* is missing, and returns the four required columns.
transform(frame) ==
    LET cols == DOMAIN frame.cols
        renamed == IF "signup_date" \in cols /\ "sign_up_date" \notin cols
                   THEN (cols \ {"signup_date"}) \cup {"sign_up_date"}
                   ELSE cols
        missing_cols == RequiredColumns \ renamed
    IN  IF missing_cols # {}
        THEN [raised |-> "ValueError", frame |-> NoFrame]
        ELSE [raised |-> None,
              frame |-> [cols |-> [c \in RequiredColumns |->
                                     CASE c = "age" -> "integer"
                                       [] c = "is_active" -> "boolean"
                                       [] OTHER -> "string"],
                         rows |-> frame.rows,
                         nulls |-> frame.nulls \cap RequiredColumns,
                         high_missing |-> frame.high_missing \cap RequiredColumns]]

\* A load_data that lets the error of a connection lost after the insert
\* escape to its caller.
load_data_raising(frame, db_up) ==
    IF RequiredColumns \ DOMAIN frame.cols # {}
    THEN [raised |-> "ValueError", success |-> FALSE, rows_loaded |-> 0,
          to_sql |-> 0]
    ELSE IF db_up
    THEN [raised |-> None, success |-> TRUE, rows_loaded |-> frame.rows,
          to_sql |-> 1]
    ELSE [raised |-> "OperationalError", success |-> FALSE, rows_loaded |-> 0,
          to_sql |-> 1]

\* load_data: raises ValueError for a frame without the required columns
\* (before the try block); every error of the connection or of the insert
\* is caught and reported in the returned dict.  to_sql: the appends to the
\* users table the call has committed.
load_data(frame, db_up) ==
    IF RequiredColumns \ DOMAIN frame.cols # {}
    THEN [raised |-> "ValueError", success |-> FALSE, rows_loaded |-> 0,
          to_sql |-> 0]
    ELSE IF db_up
    THEN [raised |-> None, success |-> TRUE, rows_loaded |-> frame.rows,
          to_sql |-> 1]
    ELSE [raised |-> None, success |-> FALSE, rows_loaded |-> 0, to_sql |-> 0]

\* --------------------------------------------------------- SchemaRegistry

\* The default registry of _load_registry: version 1 with the four required
\* columns, and an empty evolution history.
DefaultColumns ==
    [c \in RequiredColumns |->
        [type |-> CASE c = "user_id" -> "string"
                    [] c = "age" -> "integer"
                    [] c = "sign_up_date" -> "date"
                    [] OTHER -> "boolean",
         required |-> TRUE]]

load_registry ==
    [current_version |-> 1,
     schemas |-> (1 :> [version |-> 1, columns |-> DefaultColumns, writer |-> 0]),
     evolution_history |-> << >>]

\* get_current_schema: schemas.get(str(current_version), {})
get_current_schema(reg) ==
    IF reg.current_version \in DOMAIN reg.schemas
    THEN reg.schemas[reg.current_version].columns
    ELSE NoColumns

\* A new version that takes the number of the current one.
next_version_stale(reg) == reg.current_version

\* add_schema_version, line 78: new_version = current_version + 1
next_version(reg) == reg.current_version + 1

\* add_schema_version, lines 80-98: store the entry under new_version, make
\* it current, append the evolution record.  writer is the run that stored
\* the entry.
store_schema_version(reg, new_version, columns, writer) ==
    [current_version |-> new_version,
     schemas |->
        [v \in DOMAIN reg.schemas \cup {new_version} |->
            IF v = new_version
            THEN [version |-> new_version, columns |-> columns, writer |-> writer]
            ELSE reg.schemas[v]],
     evolution_history |->
        Append(reg.evolution_history,
               [from_version |-> new_version - 1, to_version |-> new_version,
                writer |-> writer])]

\* --------------------------------------------------------- SchemaDetector

\* type_mapping.get(str(dtype), "string"): a column of lists is an object
\* column.
detected_type(dtype) == IF dtype = "nested" THEN "string" ELSE dtype

\* detect_schema_from_dataframe: type from the dtype; required when the
\* column holds no null.  nunique() raises TypeError on a column whose cells
\* are lists.
detect_schema_from_dataframe(frame) ==
    IF \E c \in DOMAIN frame.cols : frame.cols[c] = "nested"
    THEN [raised |-> "TypeError", columns |-> NoColumns]
    ELSE [raised |-> None,
          columns |-> [c \in DOMAIN frame.cols |->
                         [type |-> detected_type(frame.cols[c]),
                          required |-> c \notin frame.nulls]]]

\* A comparison that does not look at the types of the common columns.
compare_names_only(detected_columns, current_columns) ==
    LET new_columns == DOMAIN detected_columns \ DOMAIN current_columns
        missing_columns == DOMAIN current_columns \ DOMAIN detected_columns
        schema_changes ==
            {[type |-> "column_added", column |-> c] : c \in new_columns}
            \cup {[type |-> "column_removed", column |-> c] :
                    c \in {m \in missing_columns : ~current_columns[m].required}}
        compatibility_issues ==
            {[type |-> "required_column_missing", column |-> c,
              severity |-> "high", current_type |-> None, detected_type |-> None] :
                    c \in {m \in missing_columns : current_columns[m].required}}
    IN  [schema_changes |-> schema_changes,
         compatibility_issues |-> compatibility_issues,
         is_compatible |-> compatibility_issues = {},
         requires_migration |-> schema_changes # {} \/ compatibility_issues # {}]

\* compare_with_current_schema
compare_with_current_schema(detected_columns, current_columns) ==
    LET new_columns == DOMAIN detected_columns \ DOMAIN current_columns
        missing_columns == DOMAIN current_columns \ DOMAIN detected_columns
        common_columns == DOMAIN current_columns \cap DOMAIN detected_columns
        schema_changes ==
            {[type |-> "column_added", column |-> c] : c \in new_columns}
            \cup {[type |-> "column_removed", column |-> c] :
                    c \in {m \in missing_columns : ~current_columns[m].required}}
        compatibility_issues ==
            {[type |-> "required_column_missing", column |-> c,
              severity |-> "high", current_type |-> None, detected_type |-> None] :
                    c \in {m \in missing_columns : current_columns[m].required}}
            \cup {[type |-> "type_mismatch", column |-> c, severity |-> "medium",
                   current_type |-> current_columns[c].type,
                   detected_type |-> detected_columns[c].type] :
                    c \in {m \in common_columns :
                             current_columns[m].type # detected_columns[m].type}}
    IN  [schema_changes |-> schema_changes,
         compatibility_issues |-> compatibility_issues,
         is_compatible |-> compatibility_issues = {},
         requires_migration |-> schema_changes # {} \/ compatibility_issues # {}]

NoComparison ==
    [schema_changes |-> {}, compatibility_issues |-> {},
     is_compatible |-> TRUE, requires_migration |-> FALSE]

\* _handle_compatibility_issues: the per-column defaults of the four known
\* columns, and the three conversions from string.
DefaultType(column) ==
    CASE column = "user_id" -> "integer"
      [] column = "age" -> "integer"
      [] column = "is_active" -> "boolean"
      [] column = "sign_up_date" -> "date"
      [] OTHER -> None

handle_compatibility_issues(frame, issues) ==
    LET synthesized ==
            {i.column : i \in {j \in issues :
                /\ j.type = "required_column_missing"
                /\ DefaultType(j.column) # None}}
        converted ==
            {i.column : i \in {j \in issues :
                /\ j.type = "type_mismatch"
                /\ j.detected_type = "string"
                /\ j.current_type \in {"integer", "boolean", "date"}}}
        current_type(c) ==
            (CHOOSE i \in issues : i.type = "type_mismatch" /\ i.column = c).current_type
    IN  [cols |-> [c \in DOMAIN frame.cols \cup synthesized |->
                      IF c \in synthesized /\ c \notin DOMAIN frame.cols
                      THEN DefaultType(c)
                      ELSE IF c \in converted THEN current_type(c)
                      ELSE frame.cols[c]],
         rows |-> frame.rows,
         nulls |-> frame.nulls,
         high_missing |-> frame.high_missing]

\* ------------------------------------------------------- DatabaseMigrator

AddedColumns(schema_changes) ==
    {ch.column : ch \in {c \in schema_changes : c.type = "column_added"}}

RemovedColumns(schema_changes) ==
    {ch.column : ch \in {c \in schema_changes : c.type = "column_removed"}}

NoMigration ==
    [returned |-> FALSE, raised |-> FALSE, columns |-> {},
     add_column |-> {}, drop_column |-> {}]

\* A migrator that carries out the removals it is asked for.
apply_schema_changes_dropping(schema_changes, columns, outcome) ==
    [returned |-> TRUE, raised |-> FALSE,
     columns |-> (columns \cup AddedColumns(schema_changes))
                    \ RemovedColumns(schema_changes),
     add_column |-> AddedColumns(schema_changes),
     drop_column |-> RemovedColumns(schema_changes)]

\* apply_schema_changes on a non-empty list of changes.  columns: the
\* columns added to the users table so far.  outcome: what the store does
\* ("raised": ensure_migration_table raises before the try block; "failed":
\* a statement fails, the exception is caught and nothing is committed).
\* ADD COLUMN of a column the table already has fails.  A column_removed
\* change is skipped.  add_column/drop_column: the committed statements.
apply_schema_changes(schema_changes, columns, outcome) ==
    LET added == AddedColumns(schema_changes)
        effective == IF outcome = "applied" /\ added \cap columns # {}
                     THEN "failed" ELSE outcome
    IN  [returned |-> effective = "applied",
         raised |-> effective = "raised",
         columns |-> IF effective = "applied" THEN columns \cup added ELSE columns,
         add_column |-> IF effective = "applied" THEN added ELSE {},
         drop_column |-> {}]

\* -------------------------------------------------------- DeadLetterQueue

\* datetime.now().strftime("%Y%m%d_%H%M%S"): the seconds the clock can show
\* when it is read next.
timestamps(last, ticks) == {t \in {last + d : d \in ticks} : t <= MaxClock}

\* The destination f"{timestamp}_{source_file.name}" inside the directory.
destination(timestamp, name) == <<timestamp, name>>

\* A destination that also embeds the id of the run.
write_to_own_path(directory, record) == directory \cup {record}

\* copy2 / move to the destination and the write of the sidecar next to
\* it: what was at the destination before is replaced.
write_to_path(directory, record) ==
    {d \in directory :
        destination(d.timestamp, d.file) # destination(record.timestamp, record.file)}
    \cup {record}

\* What the file system does to a copy or move and to the sidecar write.
IoOutcomes == {"ok", "copy_fail", "meta_fail"}

\* quarantine_file: returns "" when the source is missing or when the copy
\* or the sidecar write fails (the exception is caught); the source stays in
\* place (shutil.copy2).
quarantine_file(exists, io) ==
    [returned_path |-> exists /\ io = "ok",
     copied |-> exists /\ io # "copy_fail",
     sidecar |-> exists /\ io = "ok"]

\* An archive that copies like quarantine_file does and lets the error of
\* the sidecar write escape to run_pipeline.
archive_copy_and_raise(exists, io) ==
    [returned_path |-> exists /\ io = "ok",
     moved |-> exists /\ io # "copy_fail",
     source_removed |-> FALSE,
     sidecar |-> exists /\ io = "ok",
     raised |-> exists /\ io = "meta_fail"]

\* archive_successful_file inside _post_processing: returns "" when the
\* source is missing or when the move or the sidecar write fails; both
\* functions catch every exception, so nothing is raised to run_pipeline.
archive_successful_file(exists, io) ==
    [returned_path |-> exists /\ io = "ok",
     moved |-> exists /\ io # "copy_fail",
     source_removed |-> exists /\ io # "copy_fail",
     sidecar |-> exists /\ io = "ok",
     raised |-> FALSE]

\* ------------------------------------------------------- MetricsCollector

NoMetrics ==
    [pipeline_id |-> 0, status |-> None, stage |-> None, rows_processed |-> 0,
     error_message |-> None]

\* start_pipeline_tracking that builds the record and does not store it.
start_pipeline_tracking_not_stored(cm, id) == cm

\* start_pipeline_tracking: PipelineMetrics(...) with the dataclass defaults
\* status="running" and stage="extract", stored under the pipeline id.
start_pipeline_tracking(cm, id) ==
    [i \in DOMAIN cm \cup {id} |->
        IF i = id
        THEN [pipeline_id |-> id, status |-> "running", stage |-> "extract",
              rows_processed |-> 0, error_message |-> None]
        ELSE cm[i]]

\* An update_stage that files the load stage under "extract".
update_stage_backward(cm, id, stage, rows_processed) ==
    IF id \in DOMAIN cm
    THEN [cm EXCEPT ![id].stage = IF stage = "load" THEN "extract" ELSE stage,
                    ![id].rows_processed = rows_processed]
    ELSE cm

\* update_stage
update_stage(cm, id, stage, rows_processed) ==
    IF id \in DOMAIN cm
    THEN [cm EXCEPT ![id].stage = stage, ![id].rows_processed = rows_processed]
    ELSE cm

\* finish_pipeline_tracking: the returned metrics (None for an id that is not
\* tracked) ...
finish_pipeline_tracking(cm, id, status, error_message) ==
    IF id \notin DOMAIN cm
    THEN NoMetrics
    ELSE [cm[id] EXCEPT !.status = status, !.error_message = error_message]

\* ... and `del self.current_metrics[pipeline_id]`.
untrack(cm, id) == [i \in DOMAIN cm \ {id} |-> cm[i]]

\* --------------------------------------------------------- AlertingSystem

\* check_pipeline_health: the counter after the call ...
consecutive_failures_after(counter, metrics) ==
    IF metrics.status = "failed" THEN counter + 1 ELSE 0

\* ... and the alerts it returns.
check_pipeline_health(counter, metrics, slow) ==
    (IF slow THEN {"SLOW_EXECUTION"} ELSE {})
    \cup (IF metrics.status = "failed" THEN {"PIPELINE_FAILURE"} ELSE {})
    \cup (IF /\ metrics.status = "failed"
             /\ consecutive_failures_after(counter, metrics) >= max_failed_runs
          THEN {"CRITICAL"} ELSE {})

\* ------------------------------------------------------------- the state

VARIABLES
    slots,                \* the run slots that execute run_pipeline
    inputs,               \* the files the runs are started with
    env,                  \* what the environment of the runs may do
    budget,               \* run_pipeline calls still to be started
    next_id,              \* the next pipeline id
    input_dir,            \* files present at their input path
    deadletter,           \* data/deadletter: quarantine records
    processed,            \* data/processed: archive records
    current_metrics,      \* MetricsCollector.current_metrics
    history,              \* the metrics file: one entry per finished run
    consecutive_failures, \* AlertingSystem.consecutive_failures
    alerts,               \* alerts sent with send_alert
    registry,             \* SchemaRegistry.schemas
    db,                   \* the users table: the columns added to it
    pc,                   \* per slot: position in run_pipeline
    loc,                  \* per slot: the locals of run_pipeline
    calls,                \* per slot: calls made by the current run
    result,               \* per slot: what run_pipeline returned or raised
    monitor,              \* per thread: its call of check_pipeline_health
    clock,                \* the second the wall clock was last read at
    client,               \* calls made on the MetricsCollector from outside
    batch,                \* the locals of run_batch_pipeline
    probe                 \* a call of validate_file: arguments and result

vars ==
    <<slots, inputs, env, budget, next_id, input_dir, deadletter, processed,
      current_metrics, history, consecutive_failures, alerts, registry, db,
      pc, loc, calls, result, monitor, clock, client, batch, probe>>

NoError == [origin |-> None, type |-> None]

\* An entry of evolution_report["actions_taken"]: a text; none of the texts
\* the code appends names a column.
ActionTaken(text) == [text |-> text, column |-> None]

NoReport ==
    [schema_changed |-> FALSE, migration_applied |-> FALSE,
     actions_taken |-> {}, error |-> FALSE]

NoLoadResult ==
    [raised |-> None, success |-> FALSE, rows_loaded |-> 0, to_sql |-> 0]

NoLocals ==
    [id |-> 0, file |-> None, skip_schema_evolution |-> FALSE,
     preflight |-> [passed |-> FALSE, issues |-> {}, warnings |-> {},
                    health |-> None],
     quality |-> NoQualityReport,
     attempt |-> 0, waits |-> << >>, cancelled_at |-> 0,
     frame |-> NoFrame, engine |-> FALSE,
     detected |-> NoColumns, comparison |-> NoComparison,
     new_version |-> 0, migration |-> NoMigration, report |-> NoReport,
     load_result |-> NoLoadResult,
     archived |-> FALSE, archive_path |-> FALSE,
     final_metrics |-> NoMetrics,
     existing_metrics |-> << >>,
     error |-> NoError,
     quarantine_path |-> FALSE]

NoCalls ==
    [extract |-> 0, quality |-> 0, connect |-> 0, migrate |-> 0,
     add_version |-> 0, transform |-> 0, load |-> 0, archive |-> 0,
     quarantine |-> 0, health |-> 0, io_errors |-> 0, to_sql |-> 0]

\* The result dict of run_pipeline.  notes: what the dict says about a
\* quarantine that failed, beyond the empty quarantine_path.
NoResult ==
    [returned |-> FALSE, raised |-> FALSE, success |-> FALSE,
     failed_stage |-> None, error |-> NoError, rows_loaded |-> 0,
     quarantine_path |-> FALSE, alerts_triggered |-> 0, notes |-> {},
     stages_completed |-> << >>]

\* run_batch_pipeline is not being called.  files: list(glob(pattern));
\* next: the index of the loop; batch_results: the results appended so far;
\* started: the run_pipeline calls the loop has made; result: the dict the
\* call returned.
NoBatchResult ==
    [returned |-> FALSE, raised |-> FALSE, success |-> FALSE, total_files |-> 0,
     successful_files |-> 0, failed_files |-> 0, total_rows_processed |-> 0,
     detailed_results |-> << >>, files_processed |-> << >>]

NoBatch ==
    [at |-> "idle", calls |-> 0, files |-> << >>, next |-> 0,
     batch_results |-> << >>, successful_files |-> 0, failed_files |-> 0,
     total_rows_processed |-> 0, started |-> 0, result |-> NoBatchResult]

\* validate_file is not being called.
NoProbe ==
    [at |-> "idle", exists |-> FALSE, content |-> NoContent, stat |-> "ok",
     validation_result |-> NoValidation]

\* No call was made on the MetricsCollector from outside run_pipeline.
\* late: calls of update_stage and finish_pipeline_tracking for a run that
\* was finished before.
NoClient == [late |-> 0]

\* A thread that is not inside check_pipeline_health.  evaluated, resets:
\* the failed and the successful runs the thread has evaluated so far.
NoHealthCall ==
    [at |-> "idle", status |-> None, read |-> 0, critical |-> FALSE,
     evaluated |-> 0, resets |-> 0]

InitShared ==
    /\ next_id = 1
    /\ deadletter = {}
    /\ processed = {}
    /\ current_metrics = [i \in {} |-> NoMetrics]
    /\ history = << >>
    /\ consecutive_failures = 0
    /\ alerts = {}
    /\ registry = load_registry
    /\ db = [columns |-> {}]
    /\ pc = [r \in Slots |-> "idle"]
    /\ loc = [r \in Slots |-> NoLocals]
    /\ calls = [r \in Slots |-> NoCalls]
    /\ result = [r \in Slots |-> NoResult]
    /\ monitor = [t \in Slots |-> NoHealthCall]
    /\ clock = 0
    /\ client = NoClient
    /\ batch = NoBatch

\* What apply_schema_changes does: True after the DDL was committed, False
\* when a statement failed (caught inside), or the exception of
\* ensure_migration_table, which process_data_with_schema_evolution catches.
MigrationOutcomes == {"applied", "failed", "raised"}

\* The environment of a run: the options it is called with, the health of
\* the system, the outcome of file operations, of the store connection and
\* of the DDL, whether the run took longer than max_execution_time, whether
\* a request to cancel arrives during a retry wait, and the seconds that
\* pass between two readings of the wall clock.
FullEnv ==
    [skip |-> BOOLEAN, health |-> {"healthy", "unhealthy"},
     io_errors |-> MaxIoErrors, io |-> IoOutcomes, db_up |-> BOOLEAN,
     migration |-> MigrationOutcomes, slow |-> BOOLEAN, cancel |-> BOOLEAN,
     ticks |-> {0, 1}]

\* An environment in which only the store connection can fail and all
\* happens within one second.
QuietEnv ==
    [skip |-> {FALSE}, health |-> {"healthy"},
     io_errors |-> 0, io |-> {"ok"}, db_up |-> BOOLEAN,
     migration |-> {"applied"}, slow |-> {FALSE}, cancel |-> {FALSE},
     ticks |-> {0}]

\* One orchestrator, one run after the other (run_batch_pipeline, the CLI).
Init ==
    /\ slots = {1}
    /\ inputs = Files
    /\ env = FullEnv
    /\ budget = MaxRuns
    /\ probe = NoProbe
    /\ input_dir = InitialInputDir
    /\ InitShared

\* Two runs at a time on the same orchestrator.
ConcInit ==
    /\ slots = Slots
    /\ inputs = ConcFiles
    /\ env = QuietEnv
    /\ budget = MaxConcRuns
    /\ probe = NoProbe
    /\ input_dir = InitialInputDir
    /\ InitShared

\* ------------------------------------------------------- run_pipeline

\* A preflight whose result is logged and not acted on.
after_preflight_not_raised(passed) == "extract"

\* `if not preflight_result['passed']: raise Exception(...)`
after_preflight(passed) == IF passed THEN "extract" ELSE "h_finish"

\* An except block without the quarantine_file call.
handler_next_no_quarantine(at) ==
    CASE at = "h_finish" -> "h_alert"
      [] at = "h_alert" -> "h_return"
      [] OTHER -> "done"

\* The except block: finish tracking, send the alert, quarantine, return.
handler_next(at) ==
    CASE at = "h_finish" -> "h_alert"
      [] at = "h_alert" -> "h_quarantine"
      [] at = "h_quarantine" -> "h_return"
      [] OTHER -> "done"

Raise(r, origin, type) ==
    /\ loc' = [loc EXCEPT ![r].error = [origin |-> origin, type |-> type]]
    /\ pc' = [pc EXCEPT ![r] = "h_finish"]

\* Lines 72-79: a call of run_pipeline(file_path, options) starts; the
\* metrics record of the run is created.
StartRun(r, f, skip) ==
    /\ loc' = [loc EXCEPT ![r] =
                  [NoLocals EXCEPT !.id = next_id, !.file = f,
                                   !.skip_schema_evolution = skip]]
    /\ next_id' = next_id + 1
    /\ current_metrics' = start_pipeline_tracking(current_metrics, next_id)
    /\ pc' = [pc EXCEPT ![r] = "preflight"]
    /\ calls' = [calls EXCEPT ![r] = NoCalls]
    /\ result' = [result EXCEPT ![r] = NoResult]

\* A call of run_pipeline from outside the class (the CLI, a thread).
Start(r) ==
    /\ r \in slots
    /\ pc[r] \in {"idle", "done"}
    /\ budget > 0
    /\ \E f \in inputs, skip \in env.skip : StartRun(r, f, skip)
    /\ budget' = budget - 1
    /\ UNCHANGED <<batch, probe, clock, client, monitor, slots, inputs, env,
                   input_dir, deadletter, processed, history,
                   consecutive_failures, alerts, registry, db>>

\* A preflight that also stops the run on a warning.
run_preflight_checks_strict(health, file_validation) ==
    [passed |-> file_validation.is_valid /\ health = "healthy",
     issues |-> file_validation.issues,
     warnings |-> (IF health # "healthy"
                   THEN {"System health issues detected"} ELSE {})
                  \cup file_validation.warnings,
     health |-> health]

\* A preflight that records an unhealthy system as an issue.
run_preflight_checks_health_issue(health, file_validation) ==
    [passed |-> file_validation.is_valid /\ health = "healthy",
     issues |-> file_validation.issues
                \cup (IF health # "healthy"
                      THEN {"System health issues detected"} ELSE {}),
     warnings |-> file_validation.warnings,
     health |-> health]

\* _run_preflight_checks: an unhealthy system is a warning; the file
\* validation decides `passed`.
run_preflight_checks(health, file_validation) ==
    [passed |-> file_validation.is_valid,
     issues |-> file_validation.issues,
     warnings |-> (IF health # "healthy"
                   THEN {"System health issues detected"} ELSE {})
                  \cup file_validation.warnings,
     health |-> health]

\* Lines 82-91: stage 0, and on success the entry into stage 1.
Preflight(r) ==
    /\ pc[r] = "preflight"
    /\ \E health \in env.health :
          LET f == loc[r].file
              pre == run_preflight_checks(
                        health, validate_file(f \in input_dir, Content(f), "ok"))
          IN  /\ loc' = [loc EXCEPT
                            ![r].preflight = pre,
                            ![r].error = IF pre.passed THEN NoError
                                         ELSE [origin |-> "preflight",
                                               type |-> "Exception"]]
              /\ pc' = [pc EXCEPT ![r] = after_preflight(pre.passed)]
              /\ current_metrics' =
                    IF after_preflight(pre.passed) = "extract"
                    THEN update_stage(current_metrics, loc[r].id, "extract", 0)
                    ELSE current_metrics
    /\ UNCHANGED <<batch, probe, clock, client, monitor, slots, inputs, env,
                   budget, next_id, input_dir, deadletter,
                   processed, history, consecutive_failures, alerts, registry,
                   db, calls, result>>

\* Line 93: one iteration of retry_with_backoff(_extract_with_validation):
\* the call, and on an exception either the raise of the last attempt or the
\* sleep before the next one.  On success lines 94-98 follow.  cancel: a
\* request to cancel the run arrives during the sleep; cancelled_at keeps
\* the number of attempts made when the first request arrived.
ExtractAttempt(r) ==
    /\ pc[r] = "extract"
    /\ \E io_error \in {FALSE} \cup {e \in {TRUE} : calls[r].io_errors < env.io_errors} :
          LET f == loc[r].file
              x == extract_with_validation(f \in input_dir, Content(f), io_error)
          IN  /\ calls' = [calls EXCEPT
                              ![r].extract = @ + 1,
                              ![r].quality = @ + (IF x.quality_checked THEN 1 ELSE 0),
                              ![r].io_errors = @ + (IF x.raised = "OSError" THEN 1 ELSE 0)]
              /\ IF x.raised = None
                 THEN /\ loc' = [loc EXCEPT ![r].frame = x.frame,
                                            ![r].quality = x.quality]
                      /\ pc' = [pc EXCEPT ![r] = "connect"]
                      /\ current_metrics' =
                            update_stage(current_metrics, loc[r].id, "transform",
                                         x.frame.rows)
                 ELSE IF is_last_attempt(loc[r].attempt)
                 THEN /\ loc' = [loc EXCEPT
                                    ![r].quality = x.quality,
                                    ![r].error = [origin |-> x.origin,
                                                  type |-> reraise(x.raised)]]
                      /\ pc' = [pc EXCEPT ![r] = "h_finish"]
                      /\ UNCHANGED current_metrics
                 ELSE /\ \E cancel \in env.cancel :
                            loc' = [loc EXCEPT
                                      ![r].quality = x.quality,
                                      ![r].waits = Append(@, wait_time(loc[r].attempt)),
                                      ![r].attempt = @ + 1,
                                      ![r].cancelled_at =
                                          IF cancel /\ @ = 0
                                          THEN calls[r].extract + 1 ELSE @]
                      /\ UNCHANGED <<pc, current_metrics>>
    /\ UNCHANGED <<batch, probe, clock, client, monitor, slots, inputs, env,
                   budget, next_id, input_dir, deadletter,
                   processed, history, consecutive_failures, alerts, registry,
                   db, result>>

\* Line 101: connect_to_postgres() unless schema evolution is skipped; a
\* failed connection raises ConnectionError.
Connect(r) ==
    /\ pc[r] = "connect"
    /\ \E db_up \in env.db_up :
          IF loc[r].skip_schema_evolution
          THEN /\ loc' = [loc EXCEPT ![r].engine = FALSE]
               /\ pc' = [pc EXCEPT ![r] = "evolve"]
               /\ UNCHANGED calls
          ELSE /\ calls' = [calls EXCEPT ![r].connect = @ + 1]
               /\ IF db_up
                  THEN /\ loc' = [loc EXCEPT ![r].engine = TRUE]
                       /\ pc' = [pc EXCEPT ![r] = "evolve"]
                  ELSE Raise(r, "schema_evolution", "ConnectionError")
    /\ UNCHANGED <<batch, probe, clock, client, monitor, slots, inputs, env,
                   budget, next_id, input_dir, deadletter,
                   processed, current_metrics, history, consecutive_failures,
                   alerts, registry, db, result>>

\* ------------------------------- process_data_with_schema_evolution

\* A manager that stores a version after every comparison.
after_comparison_always_stores(comparison, engine) == "add_version"

\* Lines 373-383: which step follows the comparison (and the remediation).
after_comparison(comparison, engine) ==
    IF comparison.requires_migration /\ comparison.schema_changes # {}
    THEN IF engine THEN "migrate" ELSE "add_version"
    ELSE "transform"

\* Lines 356-370: detect the schema of the frame, compare it with the
\* registry's current version, remediate the compatibility issues in the
\* frame.
EvolveCompare(r) ==
    /\ pc[r] = "evolve"
    /\ LET d == detect_schema_from_dataframe(loc[r].frame)
           detected == d.columns
           comparison ==
               compare_with_current_schema(detected, get_current_schema(registry))
           fixed == ~comparison.is_compatible
       IN  IF d.raised # None
           THEN /\ loc' = [loc EXCEPT ![r].report.error = TRUE]
                /\ pc' = [pc EXCEPT ![r] = "transform"]
           ELSE /\ loc' = [loc EXCEPT
                     ![r].detected = detected,
                     ![r].comparison = comparison,
                     ![r].frame =
                         IF fixed
                         THEN handle_compatibility_issues(@, comparison.compatibility_issues)
                         ELSE @,
                     ![r].report =
                         [@ EXCEPT
                             !.schema_changed = comparison.requires_migration,
                             !.actions_taken =
                                 IF fixed
                                 THEN {ActionTaken("Applied compatibility fixes")}
                                 ELSE {}]]
                /\ pc' = [pc EXCEPT ![r] = after_comparison(comparison, loc[r].engine)]
    /\ UNCHANGED <<batch, probe, clock, client, monitor, slots, inputs, env,
                   budget, next_id, input_dir, deadletter,
                   processed, current_metrics, history, consecutive_failures,
                   alerts, registry, db, calls, result>>

\* Lines 373-377 (and 387-390 for the exception).
EvolveMigrate(r) ==
    /\ pc[r] = "migrate"
    /\ \E outcome \in env.migration :
          LET m == apply_schema_changes(loc[r].comparison.schema_changes,
                                        db.columns, outcome)
          IN  /\ calls' = [calls EXCEPT ![r].migrate = @ + 1]
              /\ db' = [db EXCEPT !.columns = m.columns]
              /\ loc' = [loc EXCEPT
                    ![r].migration = m,
                    ![r].report =
                        [@ EXCEPT
                            !.migration_applied = m.returned,
                            !.error = m.raised,
                            !.actions_taken =
                                IF m.returned
                                THEN @ \cup {ActionTaken("Applied database migration")}
                                ELSE @]]
              /\ pc' = [pc EXCEPT ![r] =
                            IF m.raised THEN "transform" ELSE "add_version"]
    /\ UNCHANGED <<batch, probe, clock, client, monitor, slots, inputs, env,
                   budget, next_id, input_dir, deadletter,
                   processed, current_metrics, history, consecutive_failures,
                   alerts, registry, result>>

\* add_schema_version, line 78: read the current version.
AddVersionRead(r) ==
    /\ pc[r] = "add_version"
    /\ loc' = [loc EXCEPT ![r].new_version = next_version(registry)]
    /\ pc' = [pc EXCEPT ![r] = "store_version"]
    /\ UNCHANGED <<batch, probe, clock, client, monitor, slots, inputs, env,
                   budget, next_id, input_dir, deadletter,
                   processed, current_metrics, history, consecutive_failures,
                   alerts, registry, db, calls, result>>

\* add_schema_version, lines 80-100, and line 383.
AddVersionStore(r) ==
    /\ pc[r] = "store_version"
    /\ registry' = store_schema_version(registry, loc[r].new_version,
                                        loc[r].detected, loc[r].id)
    /\ calls' = [calls EXCEPT ![r].add_version = @ + 1]
    /\ loc' = [loc EXCEPT ![r].report.actions_taken =
                                    @ \cup {ActionTaken("Updated schema")}]
    /\ pc' = [pc EXCEPT ![r] = "transform"]
    /\ UNCHANGED <<batch, probe, clock, client, monitor, slots, inputs, env,
                   budget, next_id, input_dir, deadletter,
                   processed, current_metrics, history, consecutive_failures,
                   alerts, db, result>>

\* Lines 109-117: transform; on success the entry into stage 3.
Transform(r) ==
    /\ pc[r] = "transform"
    /\ LET t == transform(loc[r].frame)
       IN  /\ calls' = [calls EXCEPT ![r].transform = @ + 1]
           /\ IF t.raised = None
              THEN /\ loc' = [loc EXCEPT ![r].frame = t.frame,
                                         ![r].attempt = 0,
                                         ![r].waits = << >>]
                   /\ pc' = [pc EXCEPT ![r] = "load"]
                   /\ current_metrics' =
                         update_stage(current_metrics, loc[r].id, "load", t.frame.rows)
              ELSE /\ Raise(r, "transform", t.raised)
                   /\ UNCHANGED current_metrics
    /\ UNCHANGED <<batch, probe, clock, client, monitor, slots, inputs, env,
                   budget, next_id, input_dir, deadletter,
                   processed, history, consecutive_failures, alerts, registry,
                   db, result>>

\* Line 119: one iteration of retry_with_backoff(load_data, clean_data).
LoadAttempt(r) ==
    /\ pc[r] = "load"
    /\ \E db_up \in env.db_up :
          LET l == load_data(loc[r].frame, db_up)
          IN  /\ calls' = [calls EXCEPT ![r].load = @ + 1,
                                       ![r].to_sql = @ + l.to_sql]
              /\ IF l.raised = None
                 THEN /\ loc' = [loc EXCEPT ![r].load_result = l]
                      /\ pc' = [pc EXCEPT ![r] = "post"]
                      /\ UNCHANGED db
                 ELSE IF is_last_attempt(loc[r].attempt)
                 THEN /\ Raise(r, "load", reraise(l.raised))
                      /\ UNCHANGED db
                 ELSE /\ \E cancel \in env.cancel :
                            loc' = [loc EXCEPT
                                      ![r].waits = Append(@, wait_time(loc[r].attempt)),
                                      ![r].attempt = @ + 1,
                                      ![r].cancelled_at =
                                          IF cancel /\ @ = 0
                                          THEN calls[r].extract + calls[r].load + 1
                                          ELSE @]
                      /\ UNCHANGED <<pc, db>>
    /\ UNCHANGED <<batch, probe, clock, client, monitor, slots, inputs, env,
                   budget, next_id, input_dir, deadletter,
                   processed, current_metrics, history, consecutive_failures,
                   alerts, registry, result>>

\* Lines 124-127: _post_processing archives the input.
PostProcessing(r) ==
    /\ pc[r] = "post"
    /\ \E io \in env.io, now \in timestamps(clock, env.ticks) :
          LET f == loc[r].file
              a == archive_successful_file(f \in input_dir, io)
          IN  /\ calls' = [calls EXCEPT ![r].archive = @ + 1]
              /\ clock' = IF f \in input_dir THEN now ELSE clock
              /\ input_dir' = IF a.source_removed THEN input_dir \ {f} ELSE input_dir
              /\ processed' =
                    IF a.moved
                    THEN write_to_path(processed,
                            [id |-> loc[r].id, file |-> f, timestamp |-> now])
                    ELSE processed
              /\ IF a.raised
                 THEN /\ loc' = [loc EXCEPT
                                    ![r].archived = a.moved,
                                    ![r].archive_path = a.returned_path,
                                    ![r].error = [origin |-> "post_processing",
                                                  type |-> "Exception"]]
                      /\ pc' = [pc EXCEPT ![r] = "h_finish"]
                 ELSE /\ loc' = [loc EXCEPT ![r].archived = a.moved,
                                            ![r].archive_path = a.returned_path]
                      /\ pc' = [pc EXCEPT ![r] = "finish"]
    /\ UNCHANGED <<batch, probe, client, monitor, slots, inputs, env,
                   budget, next_id, deadletter,
                   current_metrics, history, consecutive_failures, alerts,
                   registry, db, result>>

\* One entry of the metrics file (_save_metrics).
HistoryEntry(m) ==
    [id |-> m.pipeline_id, status |-> m.status, stage |-> m.stage,
     rows_processed |-> m.rows_processed]

\* finish_pipeline_tracking up to the read of the metrics file (lines 78-86
\* and 100-108): the record gets its status in place, and the entries the
\* file holds are loaded.  An id that is not tracked returns None at once.
begin_finish(r, status, error_message, next_pc) ==
    LET m == finish_pipeline_tracking(current_metrics, loc[r].id, status,
                                      error_message)
    IN  IF m = NoMetrics
        THEN /\ loc' = [loc EXCEPT ![r].final_metrics = m]
             /\ pc' = [pc EXCEPT ![r] = next_pc]
             /\ UNCHANGED current_metrics
        ELSE /\ loc' = [loc EXCEPT ![r].final_metrics = m,
                                   ![r].existing_metrics = history]
             /\ pc' = [pc EXCEPT ![r] = "save"]
             /\ current_metrics' = [current_metrics EXCEPT ![loc[r].id] = m]

\* Line 130: finish_pipeline_tracking(pipeline_id, "success").
FinishSuccess(r) ==
    /\ pc[r] = "finish"
    /\ begin_finish(r, "success", None, "health")
    /\ UNCHANGED <<batch, probe, clock, client, monitor, slots, inputs, env,
                   budget, next_id, input_dir, deadletter, history,
                   processed, consecutive_failures, alerts, registry, db, calls,
                   result>>

\* A save that writes the file with the new entry only.
save_metrics_truncating(existing_metrics, metrics) == <<HistoryEntry(metrics)>>

\* _save_metrics, lines 111-115.
save_metrics(existing_metrics, metrics) ==
    Append(existing_metrics, HistoryEntry(metrics))

\* The rest of finish_pipeline_tracking: the metrics file is written with
\* the new entry appended to what was read (lines 111-115), the record is
\* removed from current_metrics (line 92) and returned.
SaveMetrics(r) ==
    /\ pc[r] = "save"
    /\ history' = save_metrics(loc[r].existing_metrics, loc[r].final_metrics)
    /\ current_metrics' = untrack(current_metrics, loc[r].id)
    /\ pc' = [pc EXCEPT ![r] =
                 IF loc[r].final_metrics.status = "success"
                 THEN "health" ELSE handler_next("h_finish")]
    /\ UNCHANGED <<batch, probe, clock, client, monitor, slots, inputs, env,
                   budget, next_id, input_dir, deadletter,
                   processed, consecutive_failures, alerts, registry, db, calls,
                   result, loc>>

\* Lines 133-136: check_pipeline_health on the finished run and one
\* PERFORMANCE_ALERT per alert it returns.  A None final_metrics makes the
\* attribute access raise AttributeError inside the try block.
CheckHealth(r) ==
    /\ pc[r] = "health"
    /\ \E slow \in env.slow :
          LET m == loc[r].final_metrics
              found == check_pipeline_health(consecutive_failures, m, slow)
          IN  IF m = NoMetrics
              THEN /\ Raise(r, "post_processing", "AttributeError")
                   /\ UNCHANGED <<consecutive_failures, alerts, calls, result>>
              ELSE /\ consecutive_failures' =
                         consecutive_failures_after(consecutive_failures, m)
                   /\ alerts' = alerts \cup
                         {[type |-> "PERFORMANCE_ALERT", message |-> a] : a \in found}
                   /\ calls' = [calls EXCEPT ![r].health = @ + 1]
                   /\ pc' = [pc EXCEPT ![r] = "return"]
                   /\ result' = [result EXCEPT
                                    ![r].alerts_triggered = Cardinality(found)]
                   /\ UNCHANGED loc
    /\ UNCHANGED <<batch, probe, clock, client, monitor, slots, inputs, env,
                   budget, next_id, input_dir, deadletter,
                   processed, current_metrics, history, registry, db>>

\* Lines 139-155: the success result.
ReturnSuccess(r) ==
    /\ pc[r] = "return"
    /\ result' = [result EXCEPT ![r] =
                    [@ EXCEPT !.returned = TRUE, !.success = TRUE,
                              !.rows_loaded = loc[r].load_result.rows_loaded,
                              !.stages_completed =
                                  <<"extract", "transform", "load",
                                    "post_processing">>]]
    /\ pc' = [pc EXCEPT ![r] = "done"]
    /\ UNCHANGED <<batch, probe, clock, client, monitor, slots, inputs, env,
                   budget, next_id, input_dir, deadletter,
                   processed, current_metrics, history, consecutive_failures,
                   alerts, registry, db, loc, calls>>

\* Lines 157-164: the except block finishes the tracking as "failed".
HandlerFinish(r) ==
    /\ pc[r] = "h_finish"
    /\ begin_finish(r, "failed", loc[r].error.origin, handler_next("h_finish"))
    /\ UNCHANGED <<batch, probe, clock, client, monitor, slots, inputs, env,
                   budget, next_id, input_dir, deadletter, history,
                   processed, consecutive_failures, alerts, registry, db, calls,
                   result>>

\* Line 167: send_alert("PIPELINE_FAILURE", str(e), final_metrics).
HandlerAlert(r) ==
    /\ pc[r] = "h_alert"
    /\ alerts' = alerts \cup
          {[type |-> "PIPELINE_FAILURE", message |-> loc[r].error.origin]}
    /\ pc' = [pc EXCEPT ![r] = handler_next("h_alert")]
    /\ UNCHANGED <<batch, probe, clock, client, monitor, slots, inputs, env,
                   budget, next_id, input_dir, deadletter,
                   processed, current_metrics, history, consecutive_failures,
                   registry, db, loc, calls, result>>

\* Lines 170-175: quarantine_file(file_path, {'stage': final_metrics.stage,
\* ...}).  With final_metrics None the argument raises AttributeError out of
\* the except block, before quarantine_file is called.
HandlerQuarantine(r) ==
    /\ pc[r] = "h_quarantine"
    /\ \E io \in env.io, now \in timestamps(clock, env.ticks) :
          LET f == loc[r].file
              m == loc[r].final_metrics
              q == quarantine_file(f \in input_dir, io)
          IN  IF m = NoMetrics
              THEN /\ result' = [result EXCEPT ![r].raised = TRUE]
                   /\ pc' = [pc EXCEPT ![r] = "done"]
                   /\ UNCHANGED <<deadletter, loc, calls, clock>>
              ELSE /\ calls' = [calls EXCEPT ![r].quarantine = @ + 1]
                   /\ clock' = IF f \in input_dir THEN now ELSE clock
                   /\ deadletter' =
                         IF q.copied
                         THEN write_to_path(deadletter,
                                [id |-> loc[r].id, file |-> f,
                                 error_stage |-> m.stage, timestamp |-> now])
                         ELSE deadletter
                   /\ loc' = [loc EXCEPT ![r].quarantine_path = q.returned_path]
                   /\ pc' = [pc EXCEPT ![r] = handler_next("h_quarantine")]
                   /\ UNCHANGED result
    /\ UNCHANGED <<batch, probe, client, monitor, slots, inputs, env,
                   budget, next_id, input_dir, processed,
                   current_metrics, history, consecutive_failures, alerts,
                   registry, db>>

\* Lines 178-188: the failure result.
ReturnFailure(r) ==
    /\ pc[r] = "h_return"
    /\ result' = [result EXCEPT ![r] =
                    [@ EXCEPT !.returned = TRUE, !.success = FALSE,
                              !.failed_stage = loc[r].final_metrics.stage,
                              !.error = loc[r].error,
                              !.quarantine_path = loc[r].quarantine_path]]
    /\ pc' = [pc EXCEPT ![r] = "done"]
    /\ UNCHANGED <<batch, probe, clock, client, monitor, slots, inputs, env,
                   budget, next_id, input_dir, deadletter,
                   processed, current_metrics, history, consecutive_failures,
                   alerts, registry, db, loc, calls>>

\* A step of a run_pipeline call that has started.
Run(r) ==
    \/ Preflight(r)
    \/ ExtractAttempt(r)
    \/ Connect(r)
    \/ EvolveCompare(r)
    \/ EvolveMigrate(r)
    \/ AddVersionRead(r)
    \/ AddVersionStore(r)
    \/ Transform(r)
    \/ LoadAttempt(r)
    \/ PostProcessing(r)
    \/ FinishSuccess(r)
    \/ SaveMetrics(r)
    \/ CheckHealth(r)
    \/ ReturnSuccess(r)
    \/ HandlerFinish(r)
    \/ HandlerAlert(r)
    \/ HandlerQuarantine(r)
    \/ ReturnFailure(r)

Step(r) == Start(r) \/ Run(r)

Next == \E r \in Slots : Step(r)

Spec == Init /\ [][Next]_vars

ConcSpec == ConcInit /\ [][Next]_vars

\* ------------- AlertingSystem.check_pipeline_health called from threads

\* The threads of HealthSpec call check_pipeline_health on the shared
\* AlertingSystem with the metrics of finished runs; no pipeline runs.
HealthInit ==
    /\ slots = Slots
    /\ inputs = {}
    /\ env = QuietEnv
    /\ budget = MaxHealthCalls
    /\ probe = NoProbe
    /\ input_dir = InitialInputDir
    /\ InitShared

HealthUnchanged ==
    UNCHANGED <<slots, inputs, env, next_id, input_dir, deadletter, processed,
                current_metrics, history, alerts, registry, db, pc, loc, calls,
                result, clock, client, batch, probe>>

\* Lines 173-182: the call with the metrics of a failed or a successful
\* run, up to the test of metrics.status.
HealthCall(t) ==
    /\ monitor[t].at = "idle"
    /\ budget > 0
    /\ budget' = budget - 1
    /\ \E status \in {"failed", "success"} :
          monitor' = [monitor EXCEPT ![t].at = "branch", ![t].status = status,
                                     ![t].critical = FALSE]
    /\ UNCHANGED consecutive_failures
    /\ HealthUnchanged

\* Line 183, `self.consecutive_failures += 1`: the load of the attribute.
HealthRead(t) ==
    /\ monitor[t].at = "branch"
    /\ monitor[t].status = "failed"
    /\ monitor' = [monitor EXCEPT ![t].at = "write",
                                  ![t].read = consecutive_failures]
    /\ UNCHANGED <<budget, consecutive_failures>>
    /\ HealthUnchanged

\* Line 183: the store of the value read plus one.
HealthWrite(t) ==
    /\ monitor[t].at = "write"
    /\ consecutive_failures' =
          consecutive_failures_after(
              monitor[t].read, [NoMetrics EXCEPT !.status = monitor[t].status])
    /\ monitor' = [monitor EXCEPT ![t].at = "return", ![t].evaluated = @ + 1]
    /\ UNCHANGED budget
    /\ HealthUnchanged

\* Line 189: `self.consecutive_failures = 0`.
HealthReset(t) ==
    /\ monitor[t].at = "branch"
    /\ monitor[t].status = "success"
    /\ consecutive_failures' =
          consecutive_failures_after(
              consecutive_failures, [NoMetrics EXCEPT !.status = monitor[t].status])
    /\ monitor' = [monitor EXCEPT ![t].at = "return", ![t].resets = @ + 1]
    /\ UNCHANGED budget
    /\ HealthUnchanged

\* Lines 184-195: the alerts of the call are built (line 186 reads the
\* counter again) and returned.
HealthReturn(t) ==
    /\ monitor[t].at = "return"
    /\ monitor' = [monitor EXCEPT
                      ![t].at = "idle",
                      ![t].critical = /\ monitor[t].status = "failed"
                                      /\ consecutive_failures >= max_failed_runs]
    /\ UNCHANGED <<budget, consecutive_failures>>
    /\ HealthUnchanged

HealthNext ==
    \E t \in Slots :
        \/ HealthCall(t)
        \/ HealthRead(t)
        \/ HealthWrite(t)
        \/ HealthReset(t)
        \/ HealthReturn(t)

HealthSpec == HealthInit /\ [][HealthNext]_vars

\* ----------------------- MetricsCollector called in any order of calls

\* The client of CollectorSpec starts the tracking of runs and calls
\* update_stage and finish_pipeline_tracking for any run started so far, in
\* any order; no pipeline runs.
CollectorInit ==
    /\ slots = {}
    /\ inputs = {}
    /\ env = QuietEnv
    /\ budget = MaxTracked
    /\ probe = NoProbe
    /\ input_dir = InitialInputDir
    /\ InitShared

CollectorUnchanged ==
    UNCHANGED <<slots, inputs, env, input_dir, deadletter, processed,
                consecutive_failures, alerts, registry, db, pc, loc, calls,
                result, monitor, clock, batch, probe>>

\* Whether the call is made for a run that was finished before.
late_calls(id) ==
    [client EXCEPT !.late = @ + (IF id \in DOMAIN current_metrics THEN 0 ELSE 1)]

\* start_pipeline_tracking(pipeline_id) with a fresh id.
ClientStart ==
    /\ budget > 0
    /\ budget' = budget - 1
    /\ next_id' = next_id + 1
    /\ current_metrics' = start_pipeline_tracking(current_metrics, next_id)
    /\ UNCHANGED <<history, client>>
    /\ CollectorUnchanged

\* update_stage(pipeline_id, stage, rows_processed)
ClientUpdate ==
    /\ \E id \in 1..(next_id - 1), stage \in {"extract", "transform", "load"},
          rows_processed \in {0, SomeRows} :
          /\ id \in DOMAIN current_metrics \/ client.late < MaxLateCalls
          /\ current_metrics' = update_stage(current_metrics, id, stage, rows_processed)
          /\ client' = late_calls(id)
    /\ UNCHANGED <<budget, next_id, history>>
    /\ CollectorUnchanged

\* finish_pipeline_tracking(pipeline_id, status)
ClientFinish ==
    /\ \E id \in 1..(next_id - 1), status \in {"success", "failed"} :
          LET m == finish_pipeline_tracking(current_metrics, id, status, None)
          IN  /\ id \in DOMAIN current_metrics \/ client.late < MaxLateCalls
              /\ history' = IF m = NoMetrics THEN history
                            ELSE save_metrics(history, m)
              /\ current_metrics' = IF m = NoMetrics THEN current_metrics
                                    ELSE untrack(current_metrics, id)
              /\ client' = late_calls(id)
    /\ UNCHANGED <<budget, next_id>>
    /\ CollectorUnchanged

CollectorNext == ClientStart \/ ClientUpdate \/ ClientFinish

CollectorSpec == CollectorInit /\ [][CollectorNext]_vars

\* --------------------------------------------------------------- BatchSpec

\* The input directory of the batches, the patterns they are called with
\* and the configurations of the pipeline object.
BatchDir == {"email.csv", "empty.csv", "nested.json"}

BatchPatterns == {"*.csv", "*.json", "*.parquet"}

BatchEnv ==
    [skip |-> {FALSE}, health |-> {"healthy"},
     io_errors |-> 0, io |-> {"ok"}, db_up |-> BOOLEAN,
     migration |-> {"applied"}, slow |-> {FALSE}, cancel |-> {FALSE},
     ticks |-> {0}, batch_alerts_enabled |-> BOOLEAN]

\* Path.glob(pattern) of the two kinds of pattern: the files of the
\* directory with the suffix.
Suffix(f) ==
    CASE f = "nested.json" -> "*.json"
      [] f = "data.xml" -> "*.xml"
      [] OTHER -> "*.csv"

glob(directory, pattern) == {f \in directory : Suffix(f) = pattern}

\* list(...): the matches in the order the file system yields them.
Enumerations(S) ==
    {q \in [1..Cardinality(S) -> S] :
        \A i, j \in 1..Cardinality(S) : q[i] = q[j] => i = j}

\* A summary that calls a batch successful when one file succeeded.
batch_summary_lenient(b) ==
    [returned |-> TRUE, raised |-> FALSE,
     success |-> b.successful_files > 0,
     total_files |-> Len(b.files),
     successful_files |-> b.successful_files,
     failed_files |-> b.failed_files,
     total_rows_processed |-> b.total_rows_processed,
     detailed_results |-> b.batch_results,
     files_processed |-> << >>]

\* Lines 293-302: the batch result after the loop.
batch_summary(b) ==
    [returned |-> TRUE, raised |-> FALSE,
     success |-> b.failed_files = 0,
     total_files |-> Len(b.files),
     successful_files |-> b.successful_files,
     failed_files |-> b.failed_files,
     total_rows_processed |-> b.total_rows_processed,
     detailed_results |-> b.batch_results,
     files_processed |-> << >>]

\* One pipeline object, one run_batch_pipeline call after the other on the
\* same input directory.
BatchInit ==
    /\ slots = {1}
    /\ inputs = {}
    /\ env = BatchEnv
    /\ budget = MaxBatches
    /\ probe = NoProbe
    /\ input_dir = BatchDir
    /\ InitShared

\* Lines 261-277: the glob, the early return when nothing matches, the
\* counters of the loop.
BatchBegin ==
    /\ batch.at \in {"idle", "done"}
    /\ budget > 0
    /\ budget' = budget - 1
    /\ \E pattern \in BatchPatterns :
          \E files \in Enumerations(glob(input_dir, pattern)) :
             batch' =
                IF files = << >>
                THEN [NoBatch EXCEPT
                         !.at = "done", !.calls = batch.calls + 1,
                         !.result = [NoBatchResult EXCEPT !.returned = TRUE]]
                ELSE [NoBatch EXCEPT
                         !.at = "loop", !.calls = batch.calls + 1,
                         !.files = files, !.next = 1]
    /\ UNCHANGED <<slots, inputs, env, next_id, input_dir, deadletter,
                   processed, current_metrics, history, consecutive_failures,
                   alerts, registry, db, pc, loc, calls, result, monitor, clock,
                   client, probe>>

\* Lines 279-282: the loop calls run_pipeline(str(file_path)) for the next
\* file of the list.
BatchCall ==
    /\ batch.at = "loop"
    /\ batch.next <= Len(batch.files)
    /\ StartRun(1, batch.files[batch.next], FALSE)
    /\ batch' = [batch EXCEPT !.at = "running", !.started = @ + 1]
    /\ UNCHANGED <<slots, inputs, env, budget, input_dir, deadletter,
                   processed, history, consecutive_failures, alerts, registry,
                   db, monitor, clock, client, probe>>

\* Lines 282-291: the result of the call is appended and counted; an
\* exception of run_pipeline leaves run_batch_pipeline.
BatchCollect ==
    /\ batch.at = "running"
    /\ pc[1] = "done"
    /\ batch' =
          IF result[1].raised
          THEN [batch EXCEPT !.at = "done", !.result.raised = TRUE]
          ELSE [batch EXCEPT
                   !.at = "loop",
                   !.next = @ + 1,
                   !.batch_results =
                       Append(@, [file |-> loc[1].file, id |-> loc[1].id,
                                  success |-> result[1].success,
                                  rows_loaded |-> result[1].rows_loaded]),
                   !.successful_files =
                       @ + (IF result[1].success THEN 1 ELSE 0),
                   !.failed_files = @ + (IF result[1].success THEN 0 ELSE 1),
                   !.total_rows_processed =
                       @ + (IF result[1].success
                            THEN result[1].rows_loaded ELSE 0)]
    /\ UNCHANGED <<slots, inputs, env, budget, next_id, input_dir, deadletter,
                   processed, current_metrics, history, consecutive_failures,
                   alerts, registry, db, pc, loc, calls, result, monitor, clock,
                   client, probe>>

\* Lines 293-311: the summary, the BATCH_COMPLETION alert when the
\* configuration asks for it and a file failed, the return.
BatchReturn ==
    /\ batch.at = "loop"
    /\ batch.next > Len(batch.files)
    /\ batch' = [batch EXCEPT !.at = "done", !.result = batch_summary(batch)]
    /\ \E enabled \in env.batch_alerts_enabled :
          alerts' =
             IF enabled /\ batch.failed_files > 0
             THEN alerts \cup {[type |-> "BATCH_COMPLETION", message |-> "batch"]}
             ELSE alerts
    /\ UNCHANGED <<slots, inputs, env, budget, next_id, input_dir, deadletter,
                   processed, current_metrics, history, consecutive_failures,
                   registry, db, pc, loc, calls, result, monitor, clock,
                   client, probe>>

BatchNext ==
    \/ BatchBegin
    \/ BatchCall
    \/ BatchCollect
    \/ BatchReturn
    \/ Run(1)

BatchSpec == BatchInit /\ [][BatchNext]_vars

\* ------------------------------------------------------------ ValidateSpec

\* What exists() and stat() can do for the path validate_file is given.
StatOutcomes == {"ok", "too_large", "error"}

\* The contents validate_file is called on: those of the input files, a CSV
\* file without a byte, one that cannot be decoded, and one without the
\* recommended columns.
ProbeContents ==
    {Content(f) : f \in Files}
    \cup {[NoContent EXCEPT !.kind = k] : k \in {"blank", "undecodable"}}
    \cup {[Content("base.csv") EXCEPT
              !.cols = Restrict(BaseFrame, {"sign_up_date", "is_active"})]}

\* A caller is about to call validate_file on a path; no pipeline runs.
ValidateInit ==
    /\ slots = {}
    /\ inputs = {}
    /\ env = QuietEnv
    /\ budget = 0
    /\ probe \in [at : {"call"}, exists : BOOLEAN, content : ProbeContents,
                  stat : StatOutcomes, validation_result : {NoValidation}]
    /\ input_dir = InitialInputDir
    /\ InitShared

\* validate_file(file_path), lines 184-257.
ValidateFile ==
    /\ probe.at = "call"
    /\ probe' = [probe EXCEPT
                    !.at = "returned",
                    !.validation_result =
                        validate_file(probe.exists, probe.content, probe.stat)]
    /\ UNCHANGED <<slots, inputs, env, budget, next_id, input_dir, deadletter,
                   processed, current_metrics, history, consecutive_failures,
                   alerts, registry, db, pc, loc, calls, result, monitor, clock,
                   client, batch>>

ValidateNext == ValidateFile

ValidateSpec == ValidateInit /\ [][ValidateNext]_vars

\* ================================================================ claims

Done(r) == pc[r] = "done"

Failed(r) == Done(r) /\ ~result[r].success

Succeeded(r) == Done(r) /\ result[r].returned /\ result[r].success

StageNames == {"extract", "transform", "load"}

C2_QuarantineArchiveExclusive ==
    \A q \in deadletter : \A a \in processed : q.id # a.id

\* The same input was quarantined by one run and archived by another.
C2_Witness ==
    \E q \in deadletter : \E a \in processed : q.file = a.file /\ q.id # a.id

\* The retry loop of the extract stage ended with the raise of its last
\* attempt.
Exhausted(r) == loc[r].error.origin \in {"extract", "quality"}

\* C3 as stated: at most 3 invocations; an operation that always fails is
\* invoked exactly 3 times with waits of 1s and 2s.
C3_ThreeAttempts ==
    \A r \in Slots :
        /\ calls[r].extract <= 3
        /\ Exhausted(r) => calls[r].extract = 3 /\ loc[r].waits = <<1, 2>>

\* C3 amended: at most max_retries + 1 = 4 invocations; an operation that
\* always fails is invoked exactly 4 times with waits of 1s, 2s and 4s, and
\* the error is raised after the fourth failure.
C3_RetriesPlusOne ==
    \A r \in Slots :
        /\ calls[r].extract <= max_retries + 1
        /\ calls[r].load <= max_retries + 1
        /\ Exhausted(r) =>
              /\ calls[r].extract = max_retries + 1
              /\ loc[r].waits = <<retry_delay, 2 * retry_delay, 4 * retry_delay>>

\* A run whose extract failed on every attempt has ended.
C3_Witness == \E r \in Slots : Done(r) /\ Exhausted(r) /\ calls[r].extract = 4

\* C4: under concurrent evolutions no two evolution_history entries carry
\* the same version number and no stored version entry is overwritten by
\* another run.
C4_VersionsNeverReused ==
    LET h == registry.evolution_history
    IN  /\ \A i, j \in DOMAIN h : i # j => h[i].to_version # h[j].to_version
        /\ \A i \in DOMAIN h :
              registry.schemas[h[i].to_version].writer = h[i].writer

\* C5: a blocking issue of the dataset-level quality check fails the run
\* without another quality check or extract and without a backoff wait (the
\* only waits are those after transient read errors).
C5_QualityFailureNotRetried ==
    \A r \in Slots :
        loc[r].error.origin = "quality" =>
            /\ calls[r].quality = 1
            /\ Len(loc[r].waits) = calls[r].io_errors

\* C6: a run whose load failed with a connection error ends Failed, is not
\* archived, and no run reports success with zero rows loaded.
C6_LoadConnectionErrorFails ==
    \A r \in Slots :
        /\ Done(r) /\ calls[r].load >= 1 /\ ~loc[r].load_result.success =>
              ~result[r].success /\ ~loc[r].archived
        /\ Succeeded(r) => result[r].rows_loaded > 0

\* The stage in which each failure occurs.
StageOfOrigin(origin) ==
    CASE origin = "preflight" -> {"preflight"}
      [] origin = "extract" -> {"extract"}
      [] origin = "quality" -> {"extract", "quality_check"}
      [] origin = "schema_evolution" -> {"schema_evolution"}
      [] origin = "transform" -> {"transform"}
      [] origin = "load" -> {"load"}
      [] OTHER -> {"post_processing"}

\* C7: the failing stage a failed run reports is the stage in which the
\* failure occurred.
C7_FailedStageIsOrigin ==
    \A r \in Slots :
        Done(r) /\ result[r].returned /\ ~result[r].success =>
            result[r].failed_stage \in StageOfOrigin(result[r].error.origin)

\* C8: after a failed preflight the run makes no extract, connection,
\* migration, registry update, transform or load, and ends Failed.
C8_PreflightFailureTouchesNothing ==
    \A r \in Slots :
        pc[r] \notin {"idle", "preflight"} /\ ~loc[r].preflight.passed =>
            /\ calls[r].extract = 0
            /\ calls[r].connect = 0
            /\ calls[r].migrate = 0
            /\ calls[r].add_version = 0
            /\ calls[r].transform = 0
            /\ calls[r].load = 0
            /\ Done(r) => ~result[r].success

\* A run whose preflight found an issue has ended.
C8_Witness ==
    \E r \in Slots :
        Done(r) /\ ~loc[r].preflight.passed /\ loc[r].preflight.issues # {}

\* C9: a run that ends Failed has called quarantine_file exactly once, a run
\* that ends Succeeded has not called it.
C9_OneQuarantinePerFailure ==
    \A r \in Slots :
        /\ calls[r].quarantine <= 1
        /\ Failed(r) => calls[r].quarantine = 1
        /\ Succeeded(r) => calls[r].quarantine = 0

\* A failed run has ended whose one quarantine attempt itself failed.
C9_Witness ==
    \E r \in Slots :
        Failed(r) /\ calls[r].quarantine = 1 /\ ~result[r].quarantine_path

\* Number of failed runs at the end of the metrics history.
RECURSIVE TrailingFailures(_)
TrailingFailures(h) ==
    IF h = << >> \/ h[Len(h)].status # "failed"
    THEN 0
    ELSE 1 + TrailingFailures(SubSeq(h, 1, Len(h) - 1))

\* C10: between runs the consecutive-failure counter equals the number of
\* failed runs since the last successful run.
C10_CounterCountsFailures ==
    (\A r \in Slots : pc[r] \in {"idle", "done"}) =>
        consecutive_failures = TrailingFailures(history)

\* The runs whose apply_schema_changes call reported failure (returned
\* False).
MigrationFailed(r) ==
    /\ calls[r].migrate = 1
    /\ ~loc[r].migration.returned
    /\ ~loc[r].migration.raised

\* C11: a run whose apply_schema_changes call reports failure stores no
\* schema version (the registry is not advanced by it) and ends Failed.
C11_FailedMigrationIsFatal ==
    \A r \in Slots :
        MigrationFailed(r) =>
            /\ calls[r].add_version = 0
            /\ \A v \in DOMAIN registry.schemas :
                  registry.schemas[v].writer # loc[r].id
            /\ Done(r) => ~result[r].success

\* The run has left detection, comparison and remediation and goes on.
PastRemediation(r) ==
    pc[r] \in {"migrate", "add_version", "store_version", "transform"}

\* C12: a run that goes on after the remediation of schema evolution has
\* every column the registry marks required and the data lacked: each
\* required_column_missing issue was answered with a synthesized column (or
\* the run failed instead of going on).
C12_RequiredColumnNeverAbsent ==
    \A r \in Slots :
        PastRemediation(r) =>
            \A i \in loc[r].comparison.compatibility_issues :
                i.type = "required_column_missing" =>
                    i.column \in DOMAIN loc[r].frame.cols

\* The stages in their order; MetricsCollector records three of them.
StageOrder ==
    <<"preflight", "extract", "quality_check", "schema_evolution", "transform",
      "load", "post_processing", "terminal">>

StageRank(stage) == CHOOSE i \in DOMAIN StageOrder : StageOrder[i] = stage

\* C13: the stage recorded for a run never moves backward in the order of
\* the stages; a retry leaves the run in the stage it is in.
C13_StageMonotonic ==
    [][\A id \in DOMAIN current_metrics \cap DOMAIN current_metrics' :
          StageRank(current_metrics'[id].stage)
              >= StageRank(current_metrics[id].stage)]_vars

\* A run has reached the load stage after a retried extract.
C13_Witness ==
    \E r \in Slots :
        /\ pc[r] = "load"
        /\ calls[r].extract > 1
        /\ loc[r].id \in DOMAIN current_metrics
        /\ current_metrics[loc[r].id].stage = "load"

\* C14: when two runs have both detected the same new column against the
\* registry at version 1 (each compared before the other stored) and have
\* ended, the registry is at version 2 and exactly one version was appended.
C14_SameColumnOneVersion ==
    (\A r \in Slots :
        /\ Done(r)
        /\ "email" \in AddedColumns(loc[r].comparison.schema_changes)) =>
        /\ registry.current_version = 2
        /\ Len(registry.evolution_history) = 1

\* C15: when every check_pipeline_health call has returned and none of them
\* evaluated a successful run, the counter equals the number of failed runs
\* evaluated: no increment is lost.
C15_NoLostUpdate ==
    (/\ \A t \in Slots : monitor[t].at = "idle"
     /\ \A t \in Slots : monitor[t].resets = 0) =>
        consecutive_failures = monitor[1].evaluated + monitor[2].evaluated

\* C16: a run in which detection, comparison or remediation raised (the
\* error is noted in the evolution report before any migration) does not go
\* on to transform and load, and ends Failed.
C16_EvolutionErrorIsFatal ==
    \A r \in Slots :
        (loc[r].report.error /\ calls[r].migrate = 0) =>
            /\ pc[r] \notin {"transform", "load", "post", "finish", "health",
                             "return"}
            /\ Done(r) => ~result[r].success

\* C17: the result of a failed run whose quarantine attempt failed carries
\* the stage and the error of the original failure and a note that the
\* quarantine failed.
C17_QuarantineFailureNoted ==
    \A r \in Slots :
        (/\ Failed(r)
         /\ result[r].returned
         /\ calls[r].quarantine = 1
         /\ ~result[r].quarantine_path) =>
            /\ result[r].failed_stage = loc[r].final_metrics.stage
            /\ result[r].error = loc[r].error
            /\ result[r].notes # {}

\* C18: the waits of a retried operation are retry_delay, 2 * retry_delay,
\* 4 * retry_delay, ...: the first is the base delay, each further one
\* doubles the one before, and there is one wait per retry.
C18_BackoffDoubles ==
    \A r \in Slots :
        LET w == loc[r].waits
        IN  /\ Len(w) = loc[r].attempt
            /\ Len(w) >= 1 => w[1] = retry_delay
            /\ \A k \in 2..Len(w) : w[k] = 2 * w[k - 1]

\* An operation is about to be tried for the fourth time.
C18_Witness ==
    \E r \in Slots : pc[r] = "extract" /\ Len(loc[r].waits) = 3

\* The comparison of the run is the one of the registry as it is now.
Compared(r) ==
    \/ pc[r] \in {"migrate", "add_version", "store_version"}
    \/ /\ pc[r] = "transform"
       /\ calls[r].migrate = 0
       /\ calls[r].add_version = 0
       /\ ~loc[r].report.error

\* C19: the comparison holds exactly one column_added change per column of
\* the data that the registry lacks, exactly one high issue per required
\* registry column the data lacks, exactly one medium issue per common column
\* whose types differ, nothing for a common column of equal type, and
\* requires_migration iff there is a change or an issue.
C19_Classification ==
    \A r \in Slots :
        Compared(r) =>
            LET cur == get_current_schema(registry)
                det == loc[r].detected
                cmp == loc[r].comparison
                changes(c) == {ch \in cmp.schema_changes : ch.column = c}
                issues(c) == {i \in cmp.compatibility_issues : i.column = c}
            IN  /\ \A c \in DOMAIN det \ DOMAIN cur :
                      /\ Cardinality(changes(c)) = 1
                      /\ \A ch \in changes(c) : ch.type = "column_added"
                      /\ issues(c) = {}
                /\ \A c \in DOMAIN cur \ DOMAIN det :
                      cur[c].required =>
                          /\ Cardinality(issues(c)) = 1
                          /\ \A i \in issues(c) :
                                /\ i.type = "required_column_missing"
                                /\ i.severity = "high"
                          /\ changes(c) = {}
                /\ \A c \in DOMAIN cur \cap DOMAIN det :
                      /\ changes(c) = {}
                      /\ IF cur[c].type # det[c].type
                         THEN /\ Cardinality(issues(c)) = 1
                              /\ \A i \in issues(c) :
                                    /\ i.type = "type_mismatch"
                                    /\ i.severity = "medium"
                         ELSE issues(c) = {}
                /\ cmp.requires_migration <=>
                      (cmp.schema_changes # {} \/ cmp.compatibility_issues # {})

\* A comparison with an added column, a missing required column and a type
\* mismatch at once.
C19_Witness ==
    \E r \in Slots :
        /\ Compared(r)
        /\ AddedColumns(loc[r].comparison.schema_changes) # {}
        /\ \E i \in loc[r].comparison.compatibility_issues : i.severity = "high"
        /\ \E i \in loc[r].comparison.compatibility_issues : i.severity = "medium"

\* C20: a call of apply_schema_changes commits no DROP COLUMN and removes no
\* column of the table; when it succeeds it has committed one ADD COLUMN per
\* column_added change and the table has gained exactly those columns; a
\* list with only column_removed changes leaves the table as it is.
C20_MigratorOnlyAdds ==
    [][\A r \in Slots :
          (pc[r] = "migrate" /\ pc'[r] # "migrate") =>
              LET ch == loc[r].comparison.schema_changes
                  m == loc'[r].migration
              IN  /\ m.drop_column = {}
                  /\ db.columns \subseteq db'.columns
                  /\ m.returned =>
                        /\ m.add_column = AddedColumns(ch)
                        /\ db'.columns = db.columns \cup AddedColumns(ch)
                  /\ AddedColumns(ch) = {} => db' = db]_vars

\* A migration asked to remove a column of the table has returned True.
C20_Witness ==
    \E r \in Slots :
        /\ pc[r] = "add_version"
        /\ calls[r].migrate = 1
        /\ loc[r].migration.returned
        /\ RemovedColumns(loc[r].comparison.schema_changes) \cap db.columns # {}

\* Number of entries the metrics history holds for a run.
Entries(h, id) == Cardinality({i \in DOMAIN h : h[i].id = id})

\* C21: no call changes an entry of the metrics history, and after every
\* call each run that was finished has exactly one entry, whatever
\* update_stage and finish_pipeline_tracking calls are made for it later.
C21_TerminalImmutable ==
    [][/\ \A i \in DOMAIN history :
             i \in DOMAIN history' /\ history'[i] = history[i]
       /\ \A id \in 1..(next_id' - 1) :
             id \notin DOMAIN current_metrics' => Entries(history', id) = 1]_vars

\* Calls were made for runs finished before, and both runs are finished.
C21_Witness ==
    /\ client.late = MaxLateCalls
    /\ Len(history) = MaxTracked

\* C22: a dataset with a column that is mostly null gets a blocking issue
\* from the dataset-level gate, so the run does not go on, ends Failed after
\* one extract call and leaves a quarantine record.
C22_NullHeavyDatasetFails ==
    \A r \in Slots :
        (calls[r].quality >= 1 /\ loc[r].frame.high_missing # {}) =>
            /\ loc[r].quality.issues # {}
            /\ Done(r) =>
                  /\ ~result[r].success
                  /\ calls[r].extract = 1
                  /\ \E d \in deadletter : d.id = loc[r].id

\* C23: a run fails at the artifact-level gate iff the preflight issues are
\* non-empty, and at the dataset-level gate iff the issues of its last
\* quality report are non-empty; warnings alone stop nothing.
C23_IssuesBlockWarningsDont ==
    \A r \in Slots :
        pc[r] \notin {"idle", "preflight", "extract"} =>
            /\ loc[r].error.origin = "preflight" <=> loc[r].preflight.issues # {}
            /\ loc[r].error.origin = "quality" <=> loc[r].quality.issues # {}

\* A run has passed both gates with a warning from each.
C23_Witness ==
    \E r \in Slots :
        /\ pc[r] = "load"
        /\ loc[r].preflight.warnings # {}
        /\ loc[r].quality.warnings # {}

\* C24: what a run has quarantined stays in the dead-letter directory: no
\* other run writes to the same destination.
C24_NoPathCollision ==
    \A r \in Slots :
        (Done(r) /\ result[r].quarantine_path) =>
            \E d \in deadletter : d.id = loc[r].id

\* C25: after a request to cancel has arrived during a retry wait, no
\* further attempt is made, and the run ends Failed with the error kind
\* "cancelled".
C25_CancelAbortsRetries ==
    \A r \in Slots :
        loc[r].cancelled_at > 0 =>
            /\ calls[r].extract + calls[r].load <= loc[r].cancelled_at
            /\ Done(r) =>
                  /\ ~result[r].success
                  /\ result[r].error.type = "cancelled"

\* C26: after every step the stored versions are 1..current_version, the
\* current version is 1 plus the number of add_schema_version calls, call i
\* led from version i to i+1, each call returns the previous current version
\* plus one, and no stored version entry changes.
C26_RegistryAppendOnly ==
    [][/\ DOMAIN registry'.schemas = 1..registry'.current_version
       /\ registry'.current_version = 1 + Len(registry'.evolution_history)
       /\ \A i \in DOMAIN registry'.evolution_history :
             /\ registry'.evolution_history[i].from_version = i
             /\ registry'.evolution_history[i].to_version = i + 1
       /\ \A v \in DOMAIN registry.schemas :
             /\ v \in DOMAIN registry'.schemas
             /\ registry'.schemas[v] = registry.schemas[v]
       /\ \A r \in Slots :
             (pc[r] = "store_version" /\ pc'[r] # "store_version") =>
                 /\ loc[r].new_version = registry.current_version + 1
                 /\ registry'.current_version = registry.current_version + 1]_vars

\* Two add_schema_version calls were made.
C26_Witness == registry.current_version = 3 /\ Len(registry.evolution_history) = 2

\* The stage a run is in at a position of run_pipeline.
StageAt(at) ==
    CASE at = "preflight" -> "preflight"
      [] at = "extract" -> "extract"
      [] at \in {"connect", "evolve", "migrate", "add_version", "store_version"} ->
            "schema_evolution"
      [] at = "transform" -> "transform"
      [] at = "load" -> "load"
      [] at = "post" -> "post_processing"
      [] OTHER -> None

\* C27: while a run is in a stage, the stage of its metrics record is that
\* stage.
C27_StageVisible ==
    \A r \in Slots :
        (StageAt(pc[r]) # None /\ loc[r].id \in DOMAIN current_metrics) =>
            current_metrics[loc[r].id].stage = StageAt(pc[r])

\* C28: the metrics of a run are finished only after its input was archived
\* or quarantined, and the failure alert is sent only after the metrics were
\* finished.
C28_DisposeFinishAlertOrder ==
    \A r \in Slots :
        /\ loc[r].final_metrics # NoMetrics =>
              calls[r].archive + calls[r].quarantine >= 1
        /\ pc[r] \in {"h_quarantine", "h_return"} =>
              loc[r].final_metrics # NoMetrics

\* The columns remediation has written: the missing required columns with a
\* default and the columns whose type differs.
Substituted(issues) ==
    {i.column : i \in {j \in issues :
        \/ j.type = "required_column_missing" /\ DefaultType(j.column) # None
        \/ j.type = "type_mismatch"}}

\* C29: for every column remediation has written, the evolution report has
\* an entry of actions taken that names the column.
C29_SubstitutionsReported ==
    \A r \in Slots :
        PastRemediation(r) =>
            \A c \in Substituted(loc[r].comparison.compatibility_issues) :
                \E a \in loc[r].report.actions_taken : a.column = c

\* C30: when no run is in progress, the metrics history holds exactly one
\* entry for every run that was started.
C30_OneEntryPerFinishedRun ==
    (\A r \in Slots : pc[r] \in {"idle", "done"}) =>
        \A id \in 1..(next_id - 1) : Entries(history, id) = 1

\* C31: remediation of compatibility issues touches the frame only.  For a
\* finished run whose comparison found a missing required column or a type
\* mismatch, the registry's current version after the run defines each such
\* column as the version before the run did (present, same type, same
\* required flag), also when the run stored a version for added columns;
\* a run that stored no version left no entry in the registry.
C31_RemediationLeavesRegistry ==
    \A r \in Slots :
        Done(r) /\ loc[r].comparison.compatibility_issues # {} =>
            IF calls[r].add_version = 1
            THEN LET before == registry.schemas[loc[r].new_version - 1].columns
                     after == registry.schemas[loc[r].new_version].columns
                 IN  \A i \in loc[r].comparison.compatibility_issues :
                        /\ i.column \in DOMAIN after
                        /\ after[i.column] = before[i.column]
            ELSE \A v \in DOMAIN registry.schemas :
                    registry.schemas[v].writer # loc[r].id

\* The run is between the end of extract and the call of transform.
InReconciliation(r) ==
    pc[r] \in {"connect", "evolve", "migrate", "add_version", "store_version",
               "transform"}

\* C32: a run started with skip_schema_evolution set reconciles nothing: it
\* applies no migration to the store, stores no registry version, and the
\* frame it hands to transform is the frame extract returned (no
\* remediation).
C32_SkipDisablesEvolution ==
    \A r \in Slots :
        loc[r].skip_schema_evolution =>
            /\ calls[r].migrate = 0
            /\ calls[r].add_version = 0
            /\ \A v \in DOMAIN registry.schemas :
                  registry.schemas[v].writer # loc[r].id
            /\ InReconciliation(r) =>
                  loc[r].frame =
                      extract_data(TRUE, Content(loc[r].file), FALSE).frame

\* C33: retry_with_backoff returns the result of the first attempt that
\* succeeds and makes no attempt after it (every earlier attempt failed and
\* was followed by one wait); when it gives up, the attempt that failed was
\* attempt max_retries + 1, the error that propagates is the error this
\* attempt raised, and no wait follows it.  An attempt is made only while
\* the run is inside the retry loop.
C33_FirstSuccessOrLastError ==
    [][\A r \in Slots :
          LET f == loc[r].file
              io_error == calls'[r].io_errors > calls[r].io_errors
              x == extract_with_validation(f \in input_dir, Content(f), io_error)
          IN  /\ pc[r] = "extract" /\ pc'[r] = "connect" =>
                    /\ x.raised = None
                    /\ loc'[r].frame = x.frame
                    /\ calls'[r].extract = Len(loc[r].waits) + 1
                    /\ loc'[r].waits = loc[r].waits
              /\ pc[r] = "extract" /\ pc'[r] = "h_finish" =>
                    /\ x.raised # None
                    /\ loc'[r].error.type = x.raised
                    /\ calls'[r].extract = max_retries + 1
                    /\ Len(loc[r].waits) = max_retries
                    /\ loc'[r].waits = loc[r].waits
              /\ calls'[r].extract > calls[r].extract => pc[r] = "extract"
              /\ calls'[r].load > calls[r].load => pc[r] = "load"
      ]_vars

\* A run gave up on extract with the error of the last attempt (the
\* dataset-level gate) after an earlier attempt had failed with an I/O
\* error.
C33_Witness ==
    \E r \in Slots :
        /\ Done(r)
        /\ calls[r].extract = max_retries + 1
        /\ calls[r].io_errors = 1
        /\ loc[r].error = [origin |-> "quality", type |-> "Exception"]
        /\ Len(loc[r].waits) = max_retries

\* C35: within one run the rows are appended to the users table at most
\* once: a load attempt that is followed by another attempt of the same run
\* has appended nothing.
C35_RowsAppendedOnce ==
    [][\A r \in Slots :
          /\ calls'[r].to_sql <= 1
          /\ pc[r] = "load" /\ pc'[r] = "load" =>
                calls'[r].to_sql = calls[r].to_sql
      ]_vars

\* A run has loaded its rows with one call of load_data and one append.
C35_Witness ==
    \E r \in Slots :
        /\ Succeeded(r)
        /\ calls[r].load = 1
        /\ calls[r].to_sql = 1
        /\ result[r].rows_loaded = SomeRows

\* The shape extract returns for the input of the run, as the detector
\* sees it.
ShapeOf(r) ==
    detect_schema_from_dataframe(
        extract_data(TRUE, Content(loc[r].file), FALSE).frame).columns

\* The registry version that was current when the run compared.
ComparedWith(r) ==
    IF calls[r].add_version = 1
    THEN loc[r].new_version - 1
    ELSE registry.current_version

\* C36: a version a run stores holds the shape of the run's dataset; and a
\* run whose dataset has the shape of the current version, stored by an
\* earlier run, finds no change and no issue, reports schema_changed false,
\* migrates nothing and leaves the registry version as it is.
C36_SameShapeNoChange ==
    \A r \in Slots :
        /\ calls[r].add_version = 1 =>
              registry.schemas[loc[r].new_version].columns = ShapeOf(r)
        /\ (/\ loc[r].detected # NoColumns
            /\ registry.schemas[ComparedWith(r)].writer \notin {0, loc[r].id}
            /\ registry.schemas[ComparedWith(r)].columns = ShapeOf(r))
           => /\ loc[r].comparison = NoComparison
              /\ ~loc[r].report.schema_changed
              /\ loc[r].report.actions_taken = {}
              /\ calls[r].migrate = 0
              /\ calls[r].add_version = 0
              /\ pc[r] \notin {"migrate", "add_version", "store_version"}

\* The second run has processed email.csv after the first run stored
\* version 2 for email.csv.
C36_Witness ==
    \E r \in Slots :
        /\ Succeeded(r)
        /\ loc[r].id = 2
        /\ loc[r].file = "email.csv"
        /\ registry.current_version = 2
        /\ registry.schemas[2].writer = 1
        /\ registry.schemas[2].columns = ShapeOf(r)
        /\ ~loc[r].report.schema_changed

\* Preflight has returned and nothing else has happened in the run.
AfterPreflight(r) ==
    pc[r] \in {"extract", "h_finish"} /\ calls[r].extract = 0

\* C37: when run_health_checks reports unhealthy and validate_file finds the
\* input valid, preflight passes, the health problem is a warning and not an
\* issue, and the run goes on to extract.
C37_UnhealthyAloneNeverFails ==
    \A r \in Slots :
        (/\ AfterPreflight(r)
         /\ loc[r].preflight.health = "unhealthy"
         /\ validate_file(loc[r].file \in input_dir, Content(loc[r].file),
                          "ok").is_valid)
        => /\ pc[r] = "extract"
           /\ loc[r].preflight.passed
           /\ loc[r].preflight.issues = {}
           /\ "System health issues detected" \in loc[r].preflight.warnings
           /\ loc[r].error = NoError

C37_Witness ==
    \E r \in Slots :
        /\ AfterPreflight(r)
        /\ pc[r] = "extract"
        /\ loc[r].preflight.health = "unhealthy"
        /\ loc[r].preflight.warnings = {"System health issues detected"}

\* C38: a run whose archive call failed (returned no path) still ends
\* Succeeded with the four stages reported, makes no quarantine attempt, and
\* its input is still at its original location.
C38_PostProcessingFailureHarmless ==
    \A r \in Slots :
        Done(r) /\ calls[r].archive = 1 /\ ~loc[r].archive_path =>
            /\ Succeeded(r)
            /\ result[r].stages_completed =
                  <<"extract", "transform", "load", "post_processing">>
            /\ calls[r].quarantine = 0
            /\ loc[r].file \in input_dir

\* C40: in every result of validate_file, is_valid is false exactly when
\* the issues list is not empty; the missing file, the oversized file, the
\* CSV that does not parse, the CSV without content and the unexpected
\* error each record their issue and clear is_valid.
C40_InvalidIffIssues ==
    probe.at = "returned" =>
        LET v == probe.validation_result
            reads == probe.stat # "error" /\ probe.exists
        IN  /\ ~v.is_valid <=> v.issues # {}
            /\ probe.stat = "error" => "Validation error" \in v.issues
            /\ probe.stat # "error" /\ ~probe.exists =>
                  "File does not exist" \in v.issues
            /\ reads /\ probe.stat = "too_large" => "File too large" \in v.issues
            /\ reads /\ probe.content.kind = "malformed" =>
                  "CSV parsing error - malformed CSV" \in v.issues
            /\ reads /\ probe.content.kind = "blank" =>
                  "Empty CSV file" \in v.issues

\* validate_file has returned for a file that is too large and has no
\* content: two issues, not valid.
C40_Witness ==
    /\ probe.at = "returned"
    /\ probe.exists
    /\ probe.stat = "too_large"
    /\ probe.content.kind = "blank"
    /\ ~probe.validation_result.is_valid
    /\ Cardinality(probe.validation_result.issues) = 2

\* The runs the batch in progress has made so far.
RunsOfBatch ==
    {batch.batch_results[k].id : k \in 1..Len(batch.batch_results)}
    \cup (IF batch.at = "running" THEN {loc[1].id} ELSE {})

\* C34: after a failed run whose quarantine returned a path, the input is
\* gone from its original location, and a batch does not pick up a file
\* that a run before the batch has quarantined.
C34_QuarantineRemovesInput ==
    /\ \A r \in Slots :
          Failed(r) /\ result[r].returned /\ result[r].quarantine_path =>
              loc[r].file \notin input_dir
    /\ batch.at \in {"loop", "running"} =>
          \A k \in 1..Len(batch.files) : \A d \in deadletter :
              d.file = batch.files[k] => d.id \in RunsOfBatch

\* C39: a batch that found files returns after one run per file, in the
\* order of the list and whatever the earlier runs returned:
\* successful_files + failed_files = total_files = the number of detailed
\* results, and success iff failed_files = 0; a batch that found no file
\* returns success false and has started no run.
C39_BatchCountsAddUp ==
    batch.at = "done" =>
        LET b == batch.result
        IN  /\ b.returned /\ ~b.raised
            /\ IF batch.files = << >>
               THEN ~b.success /\ batch.started = 0 /\ b.detailed_results = << >>
               ELSE /\ b.total_files = Len(batch.files)
                    /\ b.successful_files + b.failed_files = b.total_files
                    /\ Len(b.detailed_results) = b.total_files
                    /\ batch.started = b.total_files
                    /\ b.success <=> b.failed_files = 0
                    /\ \A k \in 1..b.total_files :
                          b.detailed_results[k].file = batch.files[k]
                    /\ b.failed_files =
                          Cardinality({k \in 1..b.total_files :
                                          ~b.detailed_results[k].success})

\* A batch of two files has returned; the first file failed and the second
\* one succeeded.
C39_Witness ==
    /\ batch.at = "done"
    /\ batch.result.total_files = 2
    /\ ~batch.result.detailed_results[1].success
    /\ batch.result.detailed_results[2].success
    /\ batch.result.failed_files = 1
    /\ ~batch.result.success

====
